---- MODULE Spec2Model ----
(***************************************************************************)
(* A model of urelic's terminal dashboard (tui crate):                     *)
(*   - the NRQL clause parser (parser.rs) and renderer (query.rs),         *)
(*   - the acquisition tasks (backend.rs),                                 *)
(*   - the UI control loop and the App methods (app.rs).                   *)
(*                                                                         *)
(* Text is modelled as a sequence of tokens.  A clause keyword is one      *)
(* token, "a" is a non-blank character that belongs to no keyword and " "  *)
(* is a blank.  No keyword occurs inside a concatenation of these tokens   *)
(* except as a token, so nom's tag/take_until on characters coincide with  *)
(* the token-level operators below.                                        *)
(***************************************************************************)
EXTENDS Integers, Sequences, FiniteSets, TLC

VARIABLES
    ptext,      \* SpecParse: the input text handed to parse_nrql
    pslot,      \* SpecParse: index of the next clause the writer puts
    pedits,     \* SpecParse: deviations from the plain clause skeleton so far
    pout        \* SpecParse: result of to_nrql / to_string on ptext, or NoOut

VARIABLES
    app,        \* the App value owned by the control loop (app.rs: struct App)
    data_rx,    \* payloads sent on the data channel and not yet drained
    tasks,      \* number of running refresh tasks per canonical query text
    session,    \* the session file: NoFile or a sequence of (alias, query)
    removed,    \* history, per task key: 0 in the store or never there, 1 removed
                \* by delete_query, 2 removed and a payload sent since
    nkeys,      \* key events handled so far
    nsent       \* payloads sent on the data channel so far

VARIABLES
    now,        \* the wall-clock second (Utc::now().second(), not wrapped)
    tpc,        \* where the refresh task stands in its loop: gate, await, sleep
    reqlog      \* history: the second of every request the task has issued

VARIABLES
    arg,        \* the argument handed to the function under check
    ret         \* its result, or NoOut before the call

pvars == <<ptext, pslot, pedits, pout>>

tvars == <<now, tpc, reqlog>>

fvars == <<arg, ret>>

avars == <<app, data_rx, tasks, session, removed, nkeys, nsent>>

vars == <<ptext, pslot, pedits, pout, app, data_rx, tasks, session, removed, nkeys,
          nsent, now, tpc, reqlog, arg, ret>>

(***************************************************************************)
(* Bounds                                                                  *)
(***************************************************************************)
\* Deviations (blank or extra body tokens, stray keywords, dropped keywords)
\* a generated input may have from the skeleton
\* "FROM a SELECT a WHERE a [FACET a] SINCE a UNTIL a LIMIT a <mode>".
MaxEdits == 2

\* Payloads sent on the data channel in one run (both channels are unbounded).
MaxSent == 2

\* Characters held in all input buffers together.
MaxTyped == 2

\* Key events in one run of the control loop.
MaxKeys == 5

\* Seconds the wall clock advances in one run.
MaxNow == 6

\* Rows of a response handed to the reduction on its own.
MaxRows == 2

\* Entries of a dataset store handed to save_session on its own.
MaxEntries == 2

\* backend.rs line 71: the gate fires when second() % 5 == 0.
CadenceSeconds == 5

(***************************************************************************)
(* Text helpers                                                            *)
(***************************************************************************)
SP == " "

ClauseKw == <<"FROM", "SELECT", "WHERE", "FACET", "SINCE", "UNTIL", "LIMIT">>

ModeKw == {"TIMESERIES", "TABLE"}

Keywords == {ClauseKw[i] : i \in 1..Len(ClauseKw)} \cup ModeKw

\* Index of the first occurrence of token t in s, 0 when there is none.
IndexOf(t, s) ==
    IF \E i \in 1..Len(s) : s[i] = t
    THEN CHOOSE i \in 1..Len(s) : s[i] = t /\ \A j \in 1..(i - 1) : s[j] # t
    ELSE 0

\* str::trim: surrounding blanks removed.
Trim(s) ==
    IF \A i \in 1..Len(s) : s[i] = SP
    THEN <<>>
    ELSE LET lo == CHOOSE i \in 1..Len(s) : s[i] # SP /\ \A j \in 1..(i - 1) : s[j] = SP
             hi == CHOOSE i \in 1..Len(s) : s[i] # SP /\ \A j \in (i + 1)..Len(s) : s[j] = SP
         IN  SubSeq(s, lo, hi)

(***************************************************************************)
(* parser.rs: nom combinators.  A result is [ok, rest, out].               *)
(***************************************************************************)
PFail == [ok |-> FALSE, rest |-> <<>>, out |-> <<>>]

\* nom::bytes::complete::tag
tag(t, input) ==
    IF Len(input) >= 1 /\ input[1] = t
    THEN [ok |-> TRUE, rest |-> Tail(input), out |-> <<t>>]
    ELSE PFail

\* nom::bytes::complete::take_until: the text before the first occurrence of
\* t; the remainder starts at t.  Fails when t does not occur.
take_until(t, input) ==
    LET i == IndexOf(t, input)
    IN  IF i = 0 THEN PFail
        ELSE [ok |-> TRUE, rest |-> SubSeq(input, i, Len(input)),
              out |-> SubSeq(input, 1, i - 1)]

\* nom::branch::alt over two alternatives.
alt(r1, r2) == IF r1.ok THEN r1 ELSE r2

\* "tag(kw) then body(remainder)" with the ? operator.
after_tag(kw, input, r) == IF tag(kw, input).ok THEN r ELSE PFail

parse_timeseries(input) == alt(tag("TIMESERIES", input), tag("TABLE", input))

parse_limit(input) ==
    LET rem == tag("LIMIT", input).rest
    IN  after_tag("LIMIT", input,
                  alt(take_until("TIMESERIES", rem), take_until("TABLE", rem)))

parse_until(input) ==
    after_tag("UNTIL", input, take_until("LIMIT", tag("UNTIL", input).rest))

parse_since(input) ==
    after_tag("SINCE", input, take_until("UNTIL", tag("SINCE", input).rest))

parse_facet(input) ==
    after_tag("FACET", input, take_until("SINCE", tag("FACET", input).rest))

\* Mutant of parse_where: the SINCE alternative forgotten.
parse_where_facet_only(input) ==
    after_tag("WHERE", input, take_until("FACET", tag("WHERE", input).rest))

parse_where(input) ==
    LET rem == tag("WHERE", input).rest
    IN  after_tag("WHERE", input,
                  alt(take_until("FACET", rem), take_until("SINCE", rem)))

parse_select(input) ==
    after_tag("SELECT", input, take_until("WHERE", tag("SELECT", input).rest))

parse_from(input) ==
    after_tag("FROM", input, take_until("SELECT", tag("FROM", input).rest))

PErr(name) == [ok |-> FALSE, err |-> name, fields |-> <<>>]

\* parse_nrql: the clause parsers chained on the remainder; the first failing
\* parser's label is the error.  parse_facet alone falls back to ("", same
\* remainder).
parse_nrql(input) ==
    LET f  == parse_from(input)
        s  == parse_select(f.rest)
        w  == parse_where(s.rest)
        fc == parse_facet(w.rest)
        g  == IF fc.ok THEN fc ELSE [ok |-> TRUE, rest |-> w.rest, out |-> <<>>]
        si == parse_since(g.rest)
        u  == parse_until(si.rest)
        l  == parse_limit(u.rest)
        m  == parse_timeseries(l.rest)
    IN  IF ~f.ok THEN PErr("FROM")
        ELSE IF ~s.ok THEN PErr("SELECT")
        ELSE IF ~w.ok THEN PErr("WHERE")
        ELSE IF ~si.ok THEN PErr("SINCE")
        ELSE IF ~u.ok THEN PErr("UNTIL")
        ELSE IF ~l.ok THEN PErr("LIMIT")
        ELSE IF ~m.ok THEN PErr("MODE")
        ELSE [ok |-> TRUE, err |-> "",
              fields |-> [FROM   |-> Trim(f.out),
                          SELECT |-> Trim(s.out),
                          WHERE  |-> Trim(w.out),
                          FACET  |-> Trim(g.out),
                          SINCE  |-> Trim(si.out),
                          UNTIL  |-> Trim(u.out),
                          LIMIT  |-> Trim(l.out),
                          MODE   |-> Trim(m.out)]]

(***************************************************************************)
(* query.rs                                                                *)
(***************************************************************************)
\* impl NRQL for &str: to_nrql copies the parsed parts into an NRQLQuery.
to_nrql(input) ==
    LET parts == parse_nrql(input)
    IN  IF ~parts.ok THEN [ok |-> FALSE, err |-> parts.err, query |-> <<>>]
        ELSE [ok |-> TRUE, err |-> "",
              query |-> [from    |-> parts.fields.FROM,
                         select  |-> parts.fields.SELECT,
                         where   |-> parts.fields.WHERE,
                         facet   |-> parts.fields.FACET,
                         since   |-> parts.fields.SINCE,
                         until   |-> parts.fields.UNTIL,
                         limit   |-> parts.fields.LIMIT,
                         mode    |-> parts.fields.MODE]]

\* Mutant of to_string: the FACET segment emitted even when it is empty.
to_string_always_facet(q) ==
    <<"FROM", SP>> \o q.from \o <<SP>>
    \o <<"SELECT", SP>> \o q.select \o <<SP, "as", SP, "value", SP>>
    \o <<"WHERE", SP>> \o q.where \o <<SP>>
    \o <<"FACET", SP>> \o q.facet \o <<SP>>
    \o <<"SINCE", SP>> \o q.since \o <<SP>>
    \o <<"UNTIL", SP>> \o q.until \o <<SP>>
    \o <<"LIMIT", SP>> \o q.limit \o <<SP>>
    \o q.mode

\* NRQLQuery::to_string
to_string(q) ==
    <<"FROM", SP>> \o q.from \o <<SP>>
    \o <<"SELECT", SP>> \o q.select \o <<SP, "as", SP, "value", SP>>
    \o <<"WHERE", SP>> \o q.where \o <<SP>>
    \o (IF q.facet # <<>> THEN <<"FACET", SP>> \o q.facet \o <<SP>> ELSE <<>>)
    \o <<"SINCE", SP>> \o q.since \o <<SP>>
    \o <<"UNTIL", SP>> \o q.until \o <<SP>>
    \o <<"LIMIT", SP>> \o q.limit \o <<SP>>
    \o q.mode

(***************************************************************************)
(* The dashboard: values                                                   *)
(*                                                                         *)
(* Query texts are abstracted to names.  "Q" is a well-formed query as the *)
(* operator types it, "Q+" its rendering (to_string adds " as value" to    *)
(* the projection), "Q++" the rendering of "Q+" parsed again; "bad" does   *)
(* not parse; "LogCorr" is the correlation query of the log detail view,   *)
(* which starts with SELECT; "" is the empty string.                       *)
(***************************************************************************)
\* Option::None of ListState::selected().
None == -1

\* f64::MAX, the seed of the minimum bounds.
F64_MAX == 999

\* Characters the operator types: "y" answers a prompt, "Q" stands for the
\* text of a well-formed query; both occur in log lines.
Chars == {"y", "Q"}

Panels == {"QueryInput", "Rename", "Dashboard", "SessionLoad", "SessionSave",
           "Default", "Log", "LogDetail", "Search"}

\* BTreeMap<String, Dataset> iterates in key order.
KeyOrder == <<"", "Q+", "Q++", "Q+++">>

AllKeys == {KeyOrder[i] : i \in 1..Len(KeyOrder)}

\* Query texts a refresh task can be spawned for.
TaskKeys == {"Q+", "Q++"}

\* to_nrql succeeds on the text (parse_nrql needs FROM first).
Parses(raw) == raw \in {"Q", "Q+", "Q++"}

\* to_string of the parsed text: one more " as value" on the projection.
Render(raw) ==
    CASE raw = "Q" -> "Q+"
      [] raw = "Q+" -> "Q++"
      [] OTHER -> "Q+++"

\* load_session: query.replace("as value", "").trim()
Clean(raw) == IF raw \in {"Q+", "Q++", "Q+++"} THEN "Q" ELSE raw

\* The text the query input buffer holds: garbage after the mode keyword is
\* ignored by the parser, anything before FROM fails it.
RawOf(buf) == IF Len(buf) >= 1 /\ buf[1] = "Q" THEN "Q" ELSE "bad"

\* Rows a remote response may hold (server::timeseries::TimeseriesResult).
Row(f, b, e, v) ==
    [facet |-> f, begin_time_seconds |-> b, end_time_seconds |-> e, value |-> v]

Responses == {<<>>, <<Row("f", 1, 2, 3)>>}

\* Responses with one and with two group-keys.
FacetResponses ==
    {<<Row("f", 1, 2, 3)>>, <<Row("f", 1, 2, 3), Row("f", 2, 3, 4), Row("g", 1, 2, 5)>>}

\* Rows the reduction is exercised on: two facets, a window that begins
\* before it ends, values below and above 0.
ReduceRows ==
    {Row(f, b, e, v) : f \in {"f", "g"}, b \in {0, 1}, e \in {1, 2}, v \in {-1, 2}}

\* The responses of at most n rows.
RowSeqs(n) == UNION {[1..k -> ReduceRows] : k \in 0..n}

\* Group-keys in BTreeMap order, and the colours the generator may draw
\* (Color::Rgb of three random bytes, two values kept apart).
FacetOrder == <<"f", "g">>

FacetKeys == {"f", "g"}

Colours == {"rgb1", "rgb2"}

\* Selection markers a payload may carry (Payload::selection is set by the
\* sender; the drain copies it into a new entry only).
Selections == {"", "f"}

\* Log payloads: timestamp key -> log text as its lines.
LogKeyOrder == <<1, 2>>

LogPayloads ==
    { (1 :> << <<"y">> >>) @@ (2 :> << <<"y", "Q">>, <<"Q">> >>),
      (1 :> << <<"Q">> >>) @@ (2 :> << <<"y">> >>) }

\* Session files: absent, or alias -> query text in alias order.
NoFile == [exists |-> FALSE, pairs |-> <<>>]

SessionFiles ==
    { NoFile,
      [exists |-> TRUE,
       pairs |-> << [alias |-> <<"Q">>, query |-> "bad"],
                    [alias |-> <<"y">>, query |-> "Q+"],
                    [alias |-> <<"y", "Q">>, query |-> "Q"] >>] }

\* String::contains on sequences of characters.
Contains(line, f) ==
    \E i \in 0..(Len(line) - Len(f)) : SubSeq(line, i + 1, i + Len(f)) = f

Min2(a, b) == IF a <= b THEN a ELSE b

Max2(a, b) == IF a >= b THEN a ELSE b

\* The keys of a map as a sequence in iteration order.
KeysInOrder(f, order) == SelectSeq(order, LAMBDA k : k \in DOMAIN f)

\* The map without key k.
Without(f, k) == [x \in (DOMAIN f) \ {k} |-> f[x]]

(***************************************************************************)
(* backend.rs: refresh_timeseries                                          *)
(***************************************************************************)
\* lines 77-86: the bounds folded over every row.
RECURSIVE FoldBounds(_, _)
FoldBounds(rows, b) ==
    IF rows = <<>> THEN b
    ELSE LET point == Head(rows)
         IN  FoldBounds(Tail(rows),
                 [mins  |-> << Min2(b.mins[1], point.end_time_seconds),
                               Min2(b.mins[2], point.value) >>,
                  maxes |-> << Max2(b.maxes[1], point.end_time_seconds),
                               Max2(b.maxes[2], point.value) >>])

\* The seeds with each max started at the lowest value instead of 0.
SeedBounds_maxes_lowest == [mins |-> <<F64_MAX, F64_MAX>>, maxes |-> <<-F64_MAX, -F64_MAX>>]

\* lines 77-78: f64::MAX for each min, 0 for each max.
SeedBounds == [mins |-> <<F64_MAX, F64_MAX>>, maxes |-> <<0, 0>>]

\* lines 88-99: rows grouped by facet, in response order.
RECURSIVE GroupRows(_, _)
GroupRows(rows, facets) ==
    IF rows = <<>> THEN facets
    ELSE LET data == Head(rows)
         IN  GroupRows(Tail(rows),
                 IF data.facet \in DOMAIN facets
                 THEN [facets EXCEPT ![data.facet] =
                          Append(@, <<data.end_time_seconds, data.value>>)]
                 ELSE facets @@ (data.facet :>
                          << <<data.begin_time_seconds, data.value>> >>))

\* lines 72-108: the payload of one cadence firing.  fetched is FALSE when
\* client.query failed and unwrap_or_default made the response empty; the
\* payload itself does not carry it (history only).
BuildPayload(key, rows, fetched, sel) ==
    [type |-> "Timeseries", query |-> key,
     data |-> GroupRows(rows, <<>>),
     bounds |-> FoldBounds(rows, SeedBounds),
     facets |-> KeysInOrder(GroupRows(rows, <<>>), FacetOrder),
     selection |-> sel,
     fetched |-> fetched]

LogPayload(logs) == [type |-> "Log", logs |-> logs]

(***************************************************************************)
(* app.rs: App                                                             *)
(***************************************************************************)
\* The prompt buffers matched by "y" | "Y" (lines 243, 260).
YesAnswers == {<<"y">>, <<"Y">>}

\* UIFocus::default()
DefaultFocus ==
    [tab |-> "Logs", panel |-> "Default", input_mode |-> "Normal", loading |-> FALSE]

\* Logs::default()
DefaultLogs ==
    [logs |-> <<>>, log_item_list_state |-> None, selected |-> 0, filters |-> {}]

\* App::new; is_loaded comes from the configuration.
NewApp(loaded) ==
    [focus |-> DefaultFocus,
     is_loaded |-> loaded,
     inputs |-> [p \in Panels |-> <<>>],
     list_state |-> None,
     log_list_state |-> None,
     datasets |-> <<>>,
     dsel |-> "",
     logs |-> DefaultLogs,
     facet_colours |-> <<>>,
     ui_tx |-> <<>>,
     status |-> "running"]

set_focus(a, focus) == [a EXCEPT !.focus = focus]

\* fn add_query: the event is sent to the UI channel.
add_query(a, query) ==
    [a EXCEPT !.ui_tx = Append(@, [type |-> "AddQuery", arg |-> query])]

\* fn add_filter
add_filter(a, filter) ==
    [a EXCEPT !.logs.filters = @ \cup {filter},
              !.logs.logs =
                  LET old == a.logs.logs
                      keep == {k \in DOMAIN old :
                                 \E i \in 1..Len(old[k]) : Contains(old[k][i], filter)}
                  IN  [k \in keep |-> old[k]]]

\* Bounds::default()
DefaultBounds == [mins |-> <<0, 0>>, maxes |-> <<0, 0>>]

\* rename_query with the placeholder flagged as holding data.
rename_query_marks_data(a, query, alias) ==
    IF query \notin DOMAIN a.datasets
    THEN [a EXCEPT !.datasets = @ @@ (query :>
             [has_data |-> TRUE, query_alias |-> <<alias>>, facets |-> <<>>,
              bounds |-> DefaultBounds, selection |-> ""])]
    ELSE [a EXCEPT !.datasets[query].query_alias = <<alias>>]

\* fn rename_query
rename_query(a, query, alias) ==
    IF query \notin DOMAIN a.datasets
    THEN [a EXCEPT !.datasets = @ @@ (query :>
             [has_data |-> FALSE, query_alias |-> <<alias>>, facets |-> <<>>,
              bounds |-> DefaultBounds, selection |-> ""])]
    ELSE [a EXCEPT !.datasets[query].query_alias = <<alias>>]

\* Datasets::remove_entry(i): the key at position i in list order is
\* removed and returned; a position past the end removes nothing.
remove_entry(a, i) ==
    LET keys == KeysInOrder(a.datasets, KeyOrder)
    IN  IF i + 1 \in 1..Len(keys)
        THEN [a EXCEPT !.datasets = Without(@, keys[i + 1])]
        ELSE a

removed_key(a, i) ==
    LET keys == KeysInOrder(a.datasets, KeyOrder)
    IN  IF i + 1 \in 1..Len(keys) THEN keys[i + 1] ELSE ""

\* fn delete_query: selected().unwrap() panics on None.
delete_query(a) ==
    IF a.list_state = None
    THEN [a EXCEPT !.status = "panicked"]
    ELSE [remove_entry(a, a.list_state) EXCEPT
             !.ui_tx = Append(@, [type |-> "DeleteQuery",
                                  arg |-> removed_key(a, a.list_state)])]

\* Datasets::select(i) / Logs::select(i): the key at position i becomes the
\* selected key.
KeyAt(f, order, i, default) ==
    LET keys == KeysInOrder(f, order)
    IN  IF i + 1 \in 1..Len(keys) THEN keys[i + 1] ELSE default

\* Logs::selected(): the lines of the selected key, if it is in the buffer.
LogSelectedOk(a) == a.logs.selected \in DOMAIN a.logs.logs

Size(f) == Cardinality(DOMAIN f)

\* next: the circular successor of a list position.
NextIndex(sel, len) == IF sel = None THEN 0 ELSE IF sel >= len - 1 THEN 0 ELSE sel + 1

\* previous: the circular predecessor of a list position.
PrevIndex(sel, len) == IF sel = None THEN 0 ELSE IF sel = 0 THEN len - 1 ELSE sel - 1

\* The list walk of next (forward) and previous: the dataset list on the
\* Graph tab; on the Logs tab the lines of the selected log in the Log panel
\* and the log list elsewhere.  logs.selected().unwrap() panics when the
\* selected key is not in the buffer; next evaluates it for every Some(i),
\* previous only for Some(0).
walk(a, forward) ==
    LET step(sel, len) == IF forward THEN NextIndex(sel, len) ELSE PrevIndex(sel, len)
    IN  IF a.focus.tab = "Graph"
        THEN IF Size(a.datasets) = 0 THEN a
             ELSE LET i == step(a.list_state, Size(a.datasets))
                  IN  [a EXCEPT !.list_state = i,
                                !.dsel = KeyAt(a.datasets, KeyOrder, i, a.dsel)]
        ELSE IF a.focus.panel = "Log"
        THEN IF Size(a.logs.logs) = 0 THEN a
             ELSE LET sel == a.logs.log_item_list_state
                      unwraps == IF forward THEN sel # None ELSE sel = 0
                  IN  IF unwraps /\ ~LogSelectedOk(a)
                      THEN [a EXCEPT !.status = "panicked"]
                      ELSE LET len == IF LogSelectedOk(a)
                                      THEN Len(a.logs.logs[a.logs.selected]) ELSE 0
                           IN  [a EXCEPT !.logs.log_item_list_state = step(sel, len)]
        ELSE IF Size(a.logs.logs) = 0 THEN a
             ELSE LET i == step(a.log_list_state, Size(a.logs.logs))
                  IN  [a EXCEPT !.log_list_state = i,
                                !.logs.selected = KeyAt(a.logs.logs, LogKeyOrder, i, @)]

\* fn next
next(a) == walk(a, TRUE)

\* fn previous
previous(a) == walk(a, FALSE)

\* fn next_tab
next_tab(a) == [a EXCEPT !.focus.tab = "Logs"]

\* fn load_session: read_to_string(..).expect(..) panics without a file;
\* every pair whose cleaned text parses is added and renamed.
RECURSIVE load_pairs(_, _)
load_pairs(a, pairs) ==
    IF pairs = <<>> THEN a
    ELSE LET p == Head(pairs)
             b == IF Parses(Clean(p.query))
                  THEN rename_query(add_query(a, p.query),
                                    Render(Clean(p.query)), p.alias)
                  ELSE a
         IN  load_pairs(b, Tail(pairs))

load_session(a, file) ==
    IF ~file.exists THEN [a EXCEPT !.status = "panicked"]
    ELSE [load_pairs(a, file.pairs) EXCEPT !.is_loaded = TRUE]

\* fn save_session: alias (or the query text itself) -> query text; a later
\* entry with the same alias replaces the earlier one in the collected map.
RECURSIVE save_pairs(_, _, _)
save_pairs(ds, keys, acc) ==
    IF keys = <<>> THEN acc
    ELSE LET q == Head(keys)
             al == IF ds[q].query_alias = <<>> THEN <<q>> ELSE ds[q].query_alias[1]
             rest == SelectSeq(acc, LAMBDA p : p.alias # al)
         IN  save_pairs(ds, Tail(keys), Append(rest, [alias |-> al, query |-> q]))

save_session(a) ==
    [exists |-> TRUE,
     pairs |-> save_pairs(a.datasets, KeysInOrder(a.datasets, KeyOrder), <<>>)]

\* The forcing that sets the panel and leaves the input mode.
force_session_load_panel_only(a) ==
    IF ~a.is_loaded THEN [a EXCEPT !.focus.panel = "SessionLoad"] ELSE a

\* lines 119-126: the session prompt is forced while the session is unresolved.
force_session_load(a) ==
    IF ~a.is_loaded
    THEN [a EXCEPT !.focus.panel = "SessionLoad", !.focus.input_mode = "Input"]
    ELSE a

\* lines 133-211: a key press in Normal mode.
normal_key(a, key) ==
    CASE key = "q" ->
           [a EXCEPT !.focus.panel = "SessionSave", !.focus.input_mode = "Input"]
      [] key = "/" ->
           [a EXCEPT !.focus.panel = "Search", !.focus.input_mode = "Input"]
      [] key = "e" ->
           [a EXCEPT !.focus.panel = "QueryInput", !.focus.input_mode = "Input"]
      [] key = "j" -> next(a)
      [] key = "k" -> previous(a)
      [] key = "x" -> delete_query(a)
      [] key = "r" ->
           IF a.focus.panel # "QueryInput" /\ Size(a.datasets) # 0
           THEN [a EXCEPT !.focus.panel = "Rename", !.focus.input_mode = "Input"]
           ELSE a
      [] key = "d" ->
           IF a.focus.panel = "Dashboard"
           THEN [a EXCEPT !.focus.panel = "Default"]
           ELSE [a EXCEPT !.focus.panel = "Dashboard"]
      [] key = "T" -> next_tab(a)
      [] key = "Esc" -> [a EXCEPT !.focus.panel = "Default"]
      [] key = "Enter" ->
           CASE a.focus.panel = "Log" -> [a EXCEPT !.focus.panel = "LogDetail"]
             [] a.focus.panel = "LogDetail" ->
                  IF a.logs.log_item_list_state = None \/ ~LogSelectedOk(a)
                     \/ a.logs.log_item_list_state >= Len(a.logs.logs[a.logs.selected])
                  THEN [a EXCEPT !.status = "panicked"]
                  ELSE [add_query(a, "LogCorr") EXCEPT !.focus.panel = "Default"]
             [] a.focus.panel = "Default" -> [a EXCEPT !.focus.panel = "Log"]
             [] OTHER -> a
      [] OTHER -> a

\* The tail of Enter that resets the panel and leaves the input mode.
commit_tail_keeps_mode(a) ==
    [a EXCEPT !.inputs[a.focus.panel] = <<>>, !.focus.panel = "Default"]

\* lines 269-275: the buffer of the panel now in focus is cleared, and the
\* focus returns to Default / Normal.
commit_tail(a) ==
    [a EXCEPT !.inputs[a.focus.panel] = <<>>,
              !.focus.panel = "Default", !.focus.input_mode = "Normal"]

\* lines 214-300: a key press in Input mode.  Enter on the session-save
\* prompt returns from run.
input_key(a, key, file) ==
    CASE key = "Enter" ->
           CASE a.focus.panel = "QueryInput" ->
                  commit_tail([add_query(a, RawOf(a.inputs["QueryInput"]))
                                  EXCEPT !.focus.loading = TRUE])
             [] a.focus.panel = "Rename" ->
                  commit_tail(rename_query(a, a.dsel, a.inputs["Rename"]))
             [] a.focus.panel = "Search" ->
                  commit_tail([add_filter(a, a.inputs["Search"])
                                  EXCEPT !.focus.panel = "Default"])
             [] a.focus.panel = "SessionLoad" ->
                  LET b == IF a.inputs["SessionLoad"] \in YesAnswers
                           THEN load_session(a, file)
                           ELSE [a EXCEPT !.is_loaded = TRUE]
                  IN  IF b.status = "panicked" THEN b
                      ELSE commit_tail([b EXCEPT !.focus.panel = "Default"])
             [] a.focus.panel = "SessionSave" -> [a EXCEPT !.status = "exited"]
             [] OTHER -> commit_tail(a)
      [] key \in Chars -> [a EXCEPT !.inputs[a.focus.panel] = Append(@, key)]
      [] key = "Backspace" ->
           [a EXCEPT !.inputs[a.focus.panel] =
                        IF @ = <<>> THEN @ ELSE SubSeq(@, 1, Len(@) - 1)]
      [] key = "Esc" ->
           IF a.focus.panel = "SessionLoad" THEN a
           ELSE [a EXCEPT !.focus.panel = "Default", !.focus.input_mode = "Normal"]
      [] OTHER -> a

\* lines 131-302: the key routed by input mode.
handle_key(a, key, file) ==
    IF a.focus.input_mode = "Normal" THEN normal_key(a, key)
    ELSE input_key(a, key, file)

\* lines 328-337: every group-key of the payload without a colour gets the
\* colour rng draws for it; rng is the generator's output in this frame.
add_colours(colours, facets, rng) ==
    LET new == {facets[i] : i \in 1..Len(facets)} \ DOMAIN colours
    IN  [k \in DOMAIN colours \cup new |->
            IF k \in DOMAIN colours THEN colours[k] ELSE rng[k]]

\* lines 339-358: a log payload replaces the log buffer.
apply_log(a, payload) ==
    [a EXCEPT !.logs = [logs |-> payload.logs, log_item_list_state |-> None,
                        selected |-> 0, filters |-> {}],
              !.focus.loading = FALSE]

\* The upsert with the occupied arm writing the whole entry anew.
apply_payload_overwrite(a, payload, rng) ==
    IF payload.type = "Timeseries"
    THEN [a EXCEPT !.datasets =
             [k \in DOMAIN @ \cup {payload.query} |->
                 IF k = payload.query
                 THEN [query_alias |-> <<>>, facets |-> payload.data,
                       bounds |-> payload.bounds, selection |-> payload.selection,
                       has_data |-> TRUE]
                 ELSE @[k]],
                   !.facet_colours = add_colours(@, payload.facets, rng)]
    ELSE apply_log(a, payload)

\* The upsert with a colour drawn for every group-key of the payload.
apply_payload_recolour(a, payload, rng) ==
    IF payload.type = "Timeseries"
    THEN [a EXCEPT !.datasets =
             [k \in DOMAIN @ \cup {payload.query} |->
                 IF k = payload.query
                 THEN [query_alias |-> IF k \in DOMAIN @ THEN @[k].query_alias ELSE <<>>,
                       facets |-> payload.data, bounds |-> payload.bounds,
                       selection |-> IF k \in DOMAIN @ THEN @[k].selection
                                     ELSE payload.selection,
                       has_data |-> TRUE]
                 ELSE @[k]],
                   !.facet_colours = add_colours(<<>>, payload.facets, rng) @@ @]
    ELSE apply_log(a, payload)

\* lines 308-358: one payload applied.
apply_payload(a, payload, rng) ==
    IF payload.type = "Timeseries"
    THEN LET b == IF payload.query \notin DOMAIN a.datasets
                  THEN [a EXCEPT !.datasets = @ @@ (payload.query :>
                           [query_alias |-> <<>>, facets |-> payload.data,
                            bounds |-> payload.bounds,
                            selection |-> payload.selection,
                            has_data |-> TRUE])]
                  ELSE [a EXCEPT !.datasets[payload.query].facets = payload.data,
                                 !.datasets[payload.query].bounds = payload.bounds,
                                 !.datasets[payload.query].has_data = TRUE]
         IN  [b EXCEPT !.facet_colours = add_colours(@, payload.facets, rng)]
    ELSE apply_log(a, payload)

\* The drain taking the newest payload first.
RECURSIVE drain_newest_first(_, _, _)
drain_newest_first(a, queue, rng) ==
    IF queue = <<>> THEN a
    ELSE drain_newest_first(apply_payload(a, queue[Len(queue)], rng),
                            SubSeq(queue, 1, Len(queue) - 1), rng)

\* lines 306-360: every queued payload applied in arrival order.
RECURSIVE drain(_, _, _)
drain(a, queue, rng) ==
    IF queue = <<>> THEN a
    ELSE drain(apply_payload(a, Head(queue), rng), Tail(queue), rng)

\* One iteration of the loop of run: the prompt forced, the key (if any)
\* handled, the channel drained.  A panic or the return ends the loop before
\* the drain.
frame(a, key, file, rng) ==
    LET b == force_session_load(a)
        c == IF key = "none" THEN b ELSE handle_key(b, key, file)
    IN  IF c.status # "running" THEN c ELSE drain(c, data_rx, rng)

(***************************************************************************)
(* Spec: the control loop of run, the refresh tasks and the channels       *)
(***************************************************************************)
\* The character keys with a Normal-mode binding.  In Input mode every
\* character key inserts its character, and the characters typed are Chars.
CommandKeys == {"q", "/", "e", "j", "k", "x", "r", "d", "T"}

Keys == CommandKeys \cup {"Esc", "Enter", "Backspace", "Left", "Right"} \cup Chars

RECURSIVE SumLen(_, _)
SumLen(inputs, ps) ==
    IF ps = {} THEN 0
    ELSE LET p == CHOOSE x \in ps : TRUE
         IN  Len(inputs[p]) + SumLen(inputs, ps \ {p})

TotalTyped(a) == SumLen(a.inputs, Panels)

\* The key a successful delete_query removes in this frame, or {}.
DeletedBy(a, key) ==
    LET b == force_session_load(a)
    IN  IF key = "x" /\ b.focus.input_mode = "Normal" /\ b.list_state # None
           /\ b.list_state < Size(b.datasets)
        THEN {removed_key(b, b.list_state)}
        ELSE {}

\* The session file after this frame: save_session writes it when the save
\* prompt is answered "y".
FileAfter(a, key, file) ==
    LET b == force_session_load(a)
    IN  IF key = "Enter" /\ b.focus.input_mode = "Input"
           /\ b.focus.panel = "SessionSave" /\ b.inputs["SessionSave"] \in YesAnswers
        THEN save_session(b)
        ELSE file

AInitWith(tab) ==
    /\ \E loaded \in BOOLEAN :
         app = [NewApp(loaded) EXCEPT !.focus.tab = tab]
    /\ session \in SessionFiles
    /\ app.is_loaded => session = NoFile
    /\ data_rx = <<>>
    /\ tasks = [k \in TaskKeys |-> 0]
    /\ removed = [k \in TaskKeys |-> 0]
    /\ nkeys = 0
    /\ nsent = 0

\* The state after App::new.
AInit == AInitWith("Logs")

\* The group-keys a drain of the data channel would colour now.
Uncoloured(a, queue) ==
    {k \in FacetKeys \ DOMAIN a.facet_colours :
        \E i \in 1..Len(queue) :
            /\ queue[i].type = "Timeseries"
            /\ \E j \in 1..Len(queue[i].facets) : queue[i].facets[j] = k}

\* What the random generator may yield in one frame: a colour for each
\* group-key the frame colours (draws the frame does not make are fixed).
Rngs(a, queue) ==
    {r \in [FacetKeys -> Colours] :
        \A k \in FacetKeys \ Uncoloured(a, queue) : r[k] = "rgb1"}

\* One frame of run with the key event it polled ("none": the poll timed out).
Frame(key) ==
    /\ app.status = "running"
    /\ IF key = "none" THEN nkeys' = nkeys
       ELSE nkeys < MaxKeys /\ nkeys' = nkeys + 1
    /\ key \in CommandKeys => force_session_load(app).focus.input_mode = "Normal"
    /\ key \in Chars /\ force_session_load(app).focus.input_mode = "Input"
          => TotalTyped(app) < MaxTyped
    /\ \E rng \in Rngs(app, data_rx) :
          LET c == frame(app, key, session, rng)
          IN  /\ app' = c
              /\ data_rx' = IF c.status = "running" THEN <<>> ELSE data_rx
    /\ session' = FileAfter(app, key, session)
    /\ removed' = [k \in TaskKeys |->
                      IF k \in DeletedBy(app, key) THEN 1 ELSE removed[k]]
    /\ UNCHANGED <<tasks, nsent, pvars, tvars, fvars>>

IdleFrame == Frame("none")

KeyQuit == Frame("q")

KeySearch == Frame("/")

KeyEdit == Frame("e")

KeyNext == Frame("j")

KeyPrevious == Frame("k")

KeyDelete == Frame("x")

KeyRename == Frame("r")

KeyDashboard == Frame("d")

KeyTab == Frame("T")

KeyEsc == Frame("Esc")

KeyEnter == Frame("Enter")

KeyBackspace == Frame("Backspace")

KeyCursor == Frame("Left") \/ Frame("Right")

KeyChar == \E c \in Chars : Frame(c)

\* The receiver of the UI channel takes the next event: AddQuery parses the
\* text and, when it parses, Backend::add_query spawns a refresh task for it;
\* DeleteQuery finds nothing to stop (refresh_timeseries takes no
\* cancellation signal and add_query keeps no handle of the task).
HandleUIEvent ==
    /\ app.status = "running"
    /\ app.ui_tx # <<>>
    /\ LET ev == Head(app.ui_tx)
           spawn == ev.type = "AddQuery" /\ Parses(ev.arg)
           key == Render(ev.arg)
       IN  /\ tasks' = IF spawn THEN [tasks EXCEPT ![key] = @ + 1] ELSE tasks
           /\ removed' = IF spawn THEN [removed EXCEPT ![key] = 0] ELSE removed
    /\ app' = [app EXCEPT !.ui_tx = Tail(@)]
    /\ UNCHANGED <<data_rx, session, nkeys, nsent, pvars, tvars, fvars>>

\* The firing after which a task whose request failed returns.
TaskSends_stops_on_failure(resps, sels, oks) ==
    /\ app.status = "running"
    /\ nsent < MaxSent
    /\ nsent' = nsent + 1
    /\ \E key \in TaskKeys, rows \in resps, fetched \in oks, sel \in sels :
         /\ tasks[key] > 0
         /\ ~fetched => rows = <<>>
         /\ data_rx' = Append(data_rx, BuildPayload(key, rows, fetched, sel))
         /\ removed' = [removed EXCEPT ![key] = IF @ = 1 THEN 2 ELSE @]
         /\ tasks' = IF fetched THEN tasks ELSE [tasks EXCEPT ![key] = @ - 1]
    /\ UNCHANGED <<app, session, nkeys, pvars, tvars, fvars>>

\* refresh_timeseries, one cadence firing of a task of query text key: the
\* request, the reduction of the rows and the send.  A failed request is an
\* empty response.
TaskSends(resps, sels, oks) ==
    /\ app.status = "running"
    /\ nsent < MaxSent
    /\ nsent' = nsent + 1
    /\ \E key \in TaskKeys, rows \in resps, fetched \in oks, sel \in sels :
         /\ tasks[key] > 0
         /\ ~fetched => rows = <<>>
         /\ data_rx' = Append(data_rx, BuildPayload(key, rows, fetched, sel))
         /\ removed' = [removed EXCEPT ![key] = IF @ = 1 THEN 2 ELSE @]
    /\ UNCHANGED <<app, tasks, session, nkeys, pvars, tvars, fvars>>

TaskIteration == TaskSends(Responses, {""}, BOOLEAN)

\* The same with payloads that carry a selection marker or none.
TaskIterationMarked == TaskSends({<<>>}, Selections, {TRUE})

\* The same with responses of one and of two group-keys.
TaskIterationFacets == TaskSends(FacetResponses, {""}, {TRUE})

\* A log payload arrives on the data channel.
LogArrives ==
    /\ app.status = "running"
    /\ nsent < MaxSent
    /\ nsent' = nsent + 1
    /\ \E logs \in LogPayloads : data_rx' = Append(data_rx, LogPayload(logs))
    /\ UNCHANGED <<app, tasks, session, removed, nkeys, pvars, tvars, fvars>>

Next ==
    \/ IdleFrame
    \/ KeyQuit
    \/ KeySearch
    \/ KeyEdit
    \/ KeyNext
    \/ KeyPrevious
    \/ KeyDelete
    \/ KeyRename
    \/ KeyDashboard
    \/ KeyTab
    \/ KeyEsc
    \/ KeyEnter
    \/ KeyBackspace
    \/ KeyCursor
    \/ KeyChar
    \/ HandleUIEvent
    \/ TaskIteration
    \/ LogArrives


(***************************************************************************)
(* SpecParse: every input within MaxEdits deviations of the clause         *)
(* skeleton is written token by token and then parsed and rendered.        *)
(***************************************************************************)
NoOut == [done |-> FALSE]

StdBody == <<SP, "a", SP>>

BodyTok == {"a", SP}

StrayKw == {"FACET", "SINCE", "TABLE"}

NSlots == Len(ClauseKw) + 1

SlotKw(i) == IF i <= Len(ClauseKw) THEN {ClauseKw[i]} ELSE ModeKw

PInit ==
    /\ ptext = <<>>
    /\ pslot = 1
    /\ pedits = 0
    /\ pout = NoOut

\* The next clause as the skeleton has it: keyword, blank, body, blank (the
\* mode keyword has no body).
PutClause ==
    /\ pout = NoOut /\ pslot <= NSlots
    /\ \E k \in SlotKw(pslot) :
         ptext' = ptext \o <<k>> \o (IF pslot < NSlots THEN StdBody ELSE <<>>)
    /\ pslot' = pslot + 1
    /\ UNCHANGED <<pedits, pout, avars, tvars, fvars>>

\* The next clause's keyword with nothing after it.
PutBareKeyword ==
    /\ pout = NoOut /\ pslot < NSlots /\ pedits < MaxEdits
    /\ ptext' = Append(ptext, ClauseKw[pslot])
    /\ pslot' = pslot + 1
    /\ pedits' = pedits + 1
    /\ UNCHANGED <<pout, avars, tvars, fvars>>

\* The next clause is left out.  Leaving out FACET is no deviation.
SkipClause ==
    /\ pout = NoOut /\ pslot <= NSlots
    /\ IF pslot = 4 THEN pedits' = pedits
       ELSE pedits < MaxEdits /\ pedits' = pedits + 1
    /\ pslot' = pslot + 1
    /\ UNCHANGED <<ptext, pout, avars, tvars, fvars>>

\* One more body token (a character or a blank) at the end of the text.
PutBody ==
    /\ pout = NoOut /\ pedits < MaxEdits
    /\ \E c \in BodyTok : ptext' = Append(ptext, c)
    /\ pedits' = pedits + 1
    /\ UNCHANGED <<pslot, pout, avars, tvars, fvars>>

\* A keyword out of its place.
PutStray ==
    /\ pout = NoOut /\ pedits < MaxEdits
    /\ \E k \in StrayKw : ptext' = Append(ptext, k)
    /\ pedits' = pedits + 1
    /\ UNCHANGED <<pslot, pout, avars, tvars, fvars>>

\* ptext.to_nrql() and, when it parses, to_string() of the result.
ParseText ==
    /\ pout = NoOut
    /\ LET r == to_nrql(ptext)
       IN  pout' = [done |-> TRUE, input |-> ptext, ok |-> r.ok, err |-> r.err,
                    query |-> r.query,
                    rendered |-> IF r.ok THEN to_string(r.query) ELSE <<>>]
    /\ UNCHANGED <<ptext, pslot, pedits, avars, tvars, fvars>>

PNext ==
    \/ PutClause
    \/ PutBareKeyword
    \/ SkipClause
    \/ PutBody
    \/ PutStray
    \/ ParseText

\* No refresh task is followed through its loop.
TIdle ==
    /\ now = 0
    /\ tpc = "gate"
    /\ reqlog = <<>>

\* No function is applied on its own.
FIdle ==
    /\ arg = NoOut
    /\ ret = NoOut

\* The dashboard stands still while the parser is exercised.
AIdle ==
    /\ app = NewApp(TRUE)
    /\ session = NoFile
    /\ data_rx = <<>>
    /\ tasks = [k \in TaskKeys |-> 0]
    /\ removed = [k \in TaskKeys |-> 0]
    /\ nkeys = 0
    /\ nsent = 0

InitParse == PInit /\ AIdle /\ TIdle /\ FIdle

SpecParse == InitParse /\ [][PNext]_vars

\* The program as run executes it from App::new.
Init == AInit /\ PInit /\ TIdle /\ FIdle

Spec == Init /\ [][Next]_vars

\* The same loop started with the Graph tab in focus: focus is a public
\* field and set_focus a public method, and no key leads to the Graph tab.
InitGraph == AInitWith("Graph") /\ PInit /\ TIdle /\ FIdle

SpecGraph == InitGraph /\ [][Next]_vars

\* The dataset store under the events that write it: queries submitted
\* and renamed, the session loaded, tasks spawned, payloads sent and drained.
NextData ==
    \/ IdleFrame
    \/ KeyEdit
    \/ KeyRename
    \/ KeyChar
    \/ KeyEnter
    \/ HandleUIEvent
    \/ TaskIteration

SpecData == Init /\ [][NextData]_vars

\* The same with payloads that differ in their selection marker.
NextAlias ==
    \/ IdleFrame
    \/ KeyEdit
    \/ KeyRename
    \/ KeyChar
    \/ KeyEnter
    \/ HandleUIEvent
    \/ TaskIterationMarked

SpecAlias == Init /\ [][NextAlias]_vars

\* The facet colours under queries submitted, selected and deleted on the
\* Graph tab and payloads of several group-keys drained.
NextFacets ==
    \/ IdleFrame
    \/ KeyEdit
    \/ KeyChar
    \/ KeyEnter
    \/ KeyNext
    \/ KeyDelete
    \/ HandleUIEvent
    \/ TaskIterationFacets

SpecFacets == InitGraph /\ [][NextFacets]_vars

\* The session prompts: the keys of Input mode, quit, and the requests a
\* loaded session issues.
NextSession ==
    \/ IdleFrame
    \/ KeyQuit
    \/ KeyEsc
    \/ KeyEnter
    \/ KeyBackspace
    \/ KeyChar
    \/ HandleUIEvent

SpecSession == Init /\ [][NextSession]_vars

\* The focus under every key of the loop, with log payloads to open the
\* Log panels on and queries to rename; no task sends.
NextFocus ==
    \/ IdleFrame
    \/ KeyQuit
    \/ KeySearch
    \/ KeyEdit
    \/ KeyNext
    \/ KeyPrevious
    \/ KeyDelete
    \/ KeyRename
    \/ KeyDashboard
    \/ KeyTab
    \/ KeyEsc
    \/ KeyEnter
    \/ KeyBackspace
    \/ KeyCursor
    \/ KeyChar
    \/ LogArrives

SpecFocus == Init /\ [][NextFocus]_vars

\* Aliases an entry may carry: none, a typed one, and one that reads like
\* the text of a query (rename_query takes any text).
StoreAliases == {<<>>, << <<"y">> >>, << <<"Q+">> >>}

\* The dataset stores of at most n entries, any alias on any entry.
Stores(n) ==
    UNION {[ks -> {[has_data |-> FALSE, query_alias |-> al, facets |-> <<>>,
                    bounds |-> DefaultBounds, selection |-> ""] :
                      al \in StoreAliases}] :
              ks \in {S \in SUBSET AllKeys : Cardinality(S) <= n}}

\* save_session (app.rs 556-580) applied to a dataset store on its own.
InitSave ==
    /\ AIdle /\ PInit /\ TIdle
    /\ arg \in Stores(MaxEntries)
    /\ ret = NoOut

Save ==
    /\ ret = NoOut
    /\ ret' = save_session([NewApp(TRUE) EXCEPT !.datasets = arg])
    /\ UNCHANGED <<arg, avars, pvars, tvars>>

SpecSave == InitSave /\ [][Save]_vars

\* The rendered text of the query whose task is followed.
CadenceKey == Render("Q")

\* The reduction of refresh_timeseries (lines 77-108) applied to a response
\* on its own.
InitReduce ==
    /\ AIdle /\ PInit /\ TIdle
    /\ arg \in RowSeqs(MaxRows)
    /\ ret = NoOut

Reduce ==
    /\ ret = NoOut
    /\ ret' = BuildPayload(CadenceKey, arg, TRUE, "")
    /\ UNCHANGED <<arg, avars, pvars, tvars>>

SpecReduce == InitReduce /\ [][Reduce]_vars

\* refresh_timeseries followed through its loop for the task of the typed
\* query: the gate (line 71), the request awaited (lines 72-75), the
\* reduction and the send (lines 77-108), the sleep (line 110).  Seconds are
\* counted on without wrapping at 60, a multiple of the cadence.
\* A second passes.
Tick ==
    /\ now < MaxNow
    /\ now' = now + 1
    /\ UNCHANGED <<tpc, reqlog, avars, pvars, fvars>>

\* line 71: the gate is read; when it is open the request is issued.
TaskGate ==
    /\ app.status = "running"
    /\ tasks[CadenceKey] > 0
    /\ tpc = "gate"
    /\ IF now % CadenceSeconds = 0
       THEN tpc' = "await" /\ reqlog' = Append(reqlog, now)
       ELSE tpc' = "sleep" /\ reqlog' = reqlog
    /\ UNCHANGED <<now, avars, pvars, fvars>>

\* lines 72-108: the response (or the failure) arrives and the payload is sent.
TaskResponse ==
    /\ app.status = "running"
    /\ tpc = "await"
    /\ nsent < MaxSent
    /\ nsent' = nsent + 1
    /\ \E rows \in Responses, fetched \in BOOLEAN :
         /\ ~fetched => rows = <<>>
         /\ data_rx' = Append(data_rx, BuildPayload(CadenceKey, rows, fetched, ""))
    /\ removed' = [removed EXCEPT ![CadenceKey] = IF @ = 1 THEN 2 ELSE @]
    /\ tpc' = "sleep"
    /\ UNCHANGED <<app, tasks, session, nkeys, now, reqlog, pvars, fvars>>

\* line 110: the sleep of 16 ms is over.
TaskWake ==
    /\ app.status = "running"
    /\ tpc = "sleep"
    /\ tpc' = "gate"
    /\ UNCHANGED <<now, reqlog, avars, pvars, fvars>>

NextCadence ==
    \/ IdleFrame
    \/ KeyEdit
    \/ KeyChar
    \/ KeyEnter
    \/ HandleUIEvent
    \/ Tick
    \/ TaskGate
    \/ TaskResponse
    \/ TaskWake

SpecCadence == Init /\ [][NextCadence]_vars

(***************************************************************************)
(* Reference reading of an input, independent of the parser: the keyword   *)
(* tokens of the text and the text between consecutive keywords.           *)
(***************************************************************************)
IsKw(t) == t \in Keywords

NotBlank(t) == t # SP

\* Whitespace normalisation in its most lenient form: all blanks ignored.
StripWs(s) == SelectSeq(s, NotBlank)

KeywordsOf(s) == SelectSeq(s, IsKw)

\* The clause order with and without the optional FACET clause.
OrderNoFacet(m) == <<"FROM", "SELECT", "WHERE", "SINCE", "UNTIL", "LIMIT", m>>

OrderFacet(m) == <<"FROM", "SELECT", "WHERE", "FACET", "SINCE", "UNTIL", "LIMIT", m>>

\* All mandatory clauses present in the fixed order, each keyword once and
\* none inside a clause body; only blanks may precede FROM.
ClauseOrdered(s) ==
    /\ \E m \in ModeKw : KeywordsOf(s) \in {OrderNoFacet(m), OrderFacet(m)}
    /\ \A i \in 1..(IndexOf("FROM", s) - 1) : s[i] = SP

HasFacet(s) == IndexOf("FACET", s) # 0

ModeOf(s) == IF IndexOf("TIMESERIES", s) # 0 THEN "TIMESERIES" ELSE "TABLE"

\* The text strictly between the first k1 and the first k2 of s.
Between(s, k1, k2) == SubSeq(s, IndexOf(k1, s) + 1, IndexOf(k2, s) - 1)

\* The text after the mode keyword.
AfterMode(s) == SubSeq(s, IndexOf(ModeOf(s), s) + 1, Len(s))

\* The fields a clause-ordered text denotes.
ExpectedQuery(s) ==
    [from   |-> Trim(Between(s, "FROM", "SELECT")),
     select |-> Trim(Between(s, "SELECT", "WHERE")),
     where  |-> Trim(Between(s, "WHERE", IF HasFacet(s) THEN "FACET" ELSE "SINCE")),
     facet  |-> IF HasFacet(s) THEN Trim(Between(s, "FACET", "SINCE")) ELSE <<>>,
     since  |-> Trim(Between(s, "SINCE", "UNTIL")),
     until  |-> Trim(Between(s, "UNTIL", "LIMIT")),
     limit  |-> Trim(Between(s, "LIMIT", ModeOf(s))),
     mode   |-> <<ModeOf(s)>>]

\* s with the result-binding suffix added to its projection clause.
WithBinding(s) ==
    LET i == IndexOf("WHERE", s)
    IN  SubSeq(s, 1, i - 1) \o <<SP, "as", SP, "value", SP>> \o SubSeq(s, i, Len(s))

\* The first mandatory clause, in scan order, whose keyword does not occur
\* after the keyword of the clause before it; "none" when all occur.
RECURSIVE FirstMissingFrom(_, _)
FirstMissingFrom(i, s) ==
    IF i > 7 THEN "none"
    ELSE LET kws == IF i = 7 THEN ModeKw ELSE {OrderNoFacet("MODE")[i]}
             hit == {j \in 1..Len(s) : s[j] \in kws}
         IN  IF hit = {} THEN OrderNoFacet("MODE")[i]
             ELSE LET j == CHOOSE x \in hit : \A y \in hit : x <= y
                  IN  FirstMissingFrom(i + 1, SubSeq(s, j + 1, Len(s)))

FirstMissing(s) == FirstMissingFrom(1, s)

(***************************************************************************)
(* Claims on the parser and the renderer (SpecParse)                       *)
(***************************************************************************)
\* C8 (as claimed): every input that lacks a mandatory clause keyword fails
\* to parse with an error naming the first missing clause in scan order.
C8_ErrorNamesFirstMissing ==
    (pout.done /\ FirstMissing(pout.input) # "none")
        => (~pout.ok /\ pout.err = FirstMissing(pout.input))

\* C9 (as claimed): every input with all mandatory clauses in the fixed
\* order parses, and rendering the result gives the input back up to
\* whitespace and the " as value" suffix of the projection clause.
C9_RoundTripEveryOrdered ==
    (pout.done /\ ClauseOrdered(pout.input))
        => /\ pout.ok
           /\ StripWs(pout.rendered) = StripWs(WithBinding(pout.input))

\* The inputs on which the round trip holds: the text starts with FROM, a
\* FACET clause that is present has a non-blank body, and nothing but blanks
\* follows the mode keyword.
RoundTripInput(s) ==
    /\ ClauseOrdered(s)
    /\ s[1] = "FROM"
    /\ HasFacet(s) => Trim(Between(s, "FACET", "SINCE")) # <<>>
    /\ StripWs(AfterMode(s)) = <<>>

\* C9 (amended): on those inputs parse succeeds and render(parse(x)) equals
\* x up to whitespace and the added " as value" suffix.
C9_RoundTrip ==
    (pout.done /\ RoundTripInput(pout.input))
        => /\ pout.ok
           /\ StripWs(pout.rendered) = StripWs(WithBinding(pout.input))

C9_Witness ==
    /\ pout.done /\ RoundTripInput(pout.input) /\ HasFacet(pout.input)
    /\ pout.ok /\ pout.query.select # <<>>

HasData(a, k) == k \in DOMAIN a.datasets /\ a.datasets[k].has_data

\* A key press in this state is routed to the Normal-mode handler.
NormalPress ==
    app.status = "running" /\ app.is_loaded /\ app.focus.input_mode = "Normal"

\* This step sends a timeseries payload of query text k to the data channel.
SentFor(k) ==
    /\ Len(data_rx') = Len(data_rx) + 1
    /\ data_rx'[Len(data_rx')].type = "Timeseries"
    /\ data_rx'[Len(data_rx')].query = k

\* No log payload waits in the data channel.
NoLogQueued == \A i \in 1..Len(data_rx) : data_rx[i].type # "Log"

\* Some filter of fs is a substring of some line of the entry.
MatchesAny(lines, fs) ==
    \E f \in fs : \E i \in 1..Len(lines) : Contains(lines[i], f)

\* C1: once delete_query has removed a query (and it has not been added
\* again), no payload drained afterwards brings its entry back: the store
\* never holds a data-bearing entry for the removed key.
C1_DeletedNeverResurrected ==
    \A k \in TaskKeys : removed[k] >= 1 => ~HasData(app, k)

\* C2: after delete_query has removed a query and one payload for it has
\* been sent since (the in-flight request), no further payload for that
\* query is sent.
C2_NoPayloadAfterOneInFlight ==
    [][\A k \in TaskKeys : removed[k] = 2 => ~SentFor(k)]_vars

\* C3: the delete key pressed with no list entry selected is a no-op: the
\* loop keeps running, the focus is unchanged and no entry is removed.
C3_DeleteWithoutSelectionIsNoOp ==
    [][(KeyDelete /\ NormalPress /\ app.list_state = None)
          => /\ app'.status = "running"
             /\ app'.focus = app.focus
             /\ DOMAIN app.datasets \subseteq DOMAIN app'.datasets]_vars

\* C4: after delete_query has removed the selected entry i of a list of n
\* entries (nothing else changing the list in that frame), the selection is
\* None when the list is empty and within 0..n-2 otherwise.
C4_SelectionClampedAfterDelete ==
    [][(KeyDelete /\ NormalPress /\ data_rx = <<>>
           /\ app.list_state # None /\ app.list_state < Size(app.datasets))
          => IF Size(app.datasets) = 1
             THEN app'.list_state = None
             ELSE app'.list_state \in 0..(Size(app.datasets) - 2)]_vars

\* C5: has_data of a query's entry becomes true only in a frame that drains
\* a payload of a successful fetch for that query.
C5_HasDataOnlyAfterSuccessfulFetch ==
    [][\A k \in TaskKeys :
          (HasData(app', k) /\ ~HasData(app, k))
             => \E i \in 1..Len(data_rx) :
                   /\ data_rx[i].type = "Timeseries"
                   /\ data_rx[i].query = k
                   /\ data_rx[i].fetched]_vars

\* C6: committing a search filter leaves in the buffer exactly the entries
\* it held of which some line contains some active filter, the new filter
\* or an earlier one.
C6_FilterKeepsAnyActiveMatch ==
    [][(KeyEnter /\ app.is_loaded /\ app.focus.input_mode = "Input"
           /\ app.focus.panel = "Search" /\ NoLogQueued)
          => LET fs == app.logs.filters \cup {app.inputs["Search"]}
             IN  DOMAIN app'.logs.logs =
                    {k \in DOMAIN app.logs.logs : MatchesAny(app.logs.logs[k], fs)}]_vars

\* C7: in every step an applied filter stays in the active filter set, and
\* while a filter is active no entry missing from the buffer comes back.
C7_FiltersMonotonic ==
    [][/\ app.logs.filters \subseteq app'.logs.filters
       /\ app.logs.filters # {}
             => DOMAIN app'.logs.logs \subseteq DOMAIN app.logs.logs]_vars

\* This step is Enter on the prompt of panel p.
EnterOn(p) ==
    /\ KeyEnter
    /\ force_session_load(app).focus.input_mode = "Input"
    /\ force_session_load(app).focus.panel = p

\* The App value of this state after the key of the frame is handled and
\* before the data channel is drained.
Keyed(key) ==
    IF key = "none" THEN force_session_load(app)
    ELSE handle_key(force_session_load(app), key, session)

\* The App value after the frame with that key has drained the channel.
Drained(key, rng) == drain(Keyed(key), data_rx, rng)

\* Frames that write no alias, and the frame that may (Enter commits a
\* rename or a session load).
DrainKeys == {"none", "Enter"}

\* C11: the drain of a frame leaves the alias and the selection marker of
\* every entry the store holds when the drain begins as they are, whatever
\* payloads are queued, also in the frame whose key has just committed a
\* rename or loaded the session.
C11_PayloadKeepsAliasAndSelection ==
    \A key \in DrainKeys, rng \in Rngs(app, data_rx) :
       LET b == Keyed(key)
           c == Drained(key, rng)
       IN  b.status = "running"
              => \A k \in DOMAIN b.datasets :
                    /\ k \in DOMAIN c.datasets
                    /\ c.datasets[k].query_alias = b.datasets[k].query_alias
                    /\ c.datasets[k].selection = b.datasets[k].selection

\* An entry with an alias and a selection marker has a payload with another
\* marker queued.
C11_Witness ==
    \E k \in DOMAIN app.datasets :
        /\ app.datasets[k].query_alias # <<>>
        /\ \E i \in 1..Len(data_rx) :
              /\ data_rx[i].type = "Timeseries" /\ data_rx[i].query = k
              /\ data_rx[i].selection # app.datasets[k].selection

\* A timeseries payload of query text k waits in the data channel.
QueuedFor(k) ==
    \E i \in 1..Len(data_rx) :
        data_rx[i].type = "Timeseries" /\ data_rx[i].query = k

\* The rename prompt is in focus and the selected key has no entry.
RenamesMissing ==
    /\ app.status = "running" /\ app.is_loaded
    /\ app.focus.input_mode = "Input" /\ app.focus.panel = "Rename"
    /\ app.dsel \notin DOMAIN app.datasets

\* C12: a rename committed for a key with no entry makes a placeholder:
\* has_data false, no series, default bounds, the alias given; and the drain
\* of a payload for an entry without data sets has_data and keeps the alias.
C12_PlaceholderThenPayload ==
    /\ RenamesMissing
          => /\ app.dsel \in DOMAIN Keyed("Enter").datasets
             /\ Keyed("Enter").datasets[app.dsel] =
                   [has_data |-> FALSE, query_alias |-> <<app.inputs["Rename"]>>,
                    facets |-> <<>>, bounds |-> DefaultBounds, selection |-> ""]
    /\ \A key \in DrainKeys, rng \in Rngs(app, data_rx) :
          LET b == Keyed(key)
              c == Drained(key, rng)
          IN  b.status = "running"
                 => \A k \in DOMAIN b.datasets :
                       (~b.datasets[k].has_data /\ QueuedFor(k))
                          => /\ c.datasets[k].has_data
                             /\ c.datasets[k].query_alias = b.datasets[k].query_alias

\* The placeholder of a rename waits for the payload queued for its key.
C12_Witness ==
    \E k \in DOMAIN app.datasets :
        /\ ~app.datasets[k].has_data
        /\ app.datasets[k].query_alias # <<>>
        /\ QueuedFor(k)

\* The list the navigation keys walk in state a: its length and the
\* position selected in it.
NavLen(a) ==
    IF a.focus.tab = "Graph" THEN Size(a.datasets)
    ELSE IF a.focus.panel = "Log"
    THEN IF LogSelectedOk(a) THEN Len(a.logs.logs[a.logs.selected]) ELSE 0
    ELSE Size(a.logs.logs)

NavSel(a) ==
    IF a.focus.tab = "Graph" THEN a.list_state
    ELSE IF a.focus.panel = "Log" THEN a.logs.log_item_list_state
    ELSE a.log_list_state

\* The position after a navigation step as the circular walk defines it.
NavExpected(forward) ==
    LET n == NavLen(app)
        i == NavSel(app)
    IN  IF n = 0 THEN NavSel(app') = i
        ELSE /\ NavSel(app') \in 0..(n - 1)
             /\ i \in 0..(n - 1)
                   => NavSel(app') = IF forward
                                     THEN (IF i = n - 1 THEN 0 ELSE i + 1)
                                     ELSE (IF i = 0 THEN n - 1 ELSE i - 1)

\* C13: a navigation key (no payload drained in the frame) moves the
\* selection circularly within the list and leaves it alone on an empty list.
C13_NavigationCircularInRange ==
    [][/\ (KeyNext /\ NormalPress /\ data_rx = <<>>)
          => app'.status = "running" /\ NavExpected(TRUE)
       /\ (KeyPrevious /\ NormalPress /\ data_rx = <<>>)
          => app'.status = "running" /\ NavExpected(FALSE)]_vars

\* The group-keys of the timeseries payloads waiting in the data channel.
QueuedFacets ==
    UNION {{data_rx[i].facets[j] : j \in 1..Len(data_rx[i].facets)} :
              i \in {n \in 1..Len(data_rx) : data_rx[n].type = "Timeseries"}}

\* C14: a coloured group-key keeps its colour in every step and is never
\* removed; a frame that drains payloads adds an entry for exactly the
\* group-keys of those payloads that had no colour, and no other step adds one.
C14_FacetColourAssignedOnce ==
    [][/\ \A k \in DOMAIN app.facet_colours :
             /\ k \in DOMAIN app'.facet_colours
             /\ app'.facet_colours[k] = app.facet_colours[k]
       /\ DOMAIN app'.facet_colours =
             IF data_rx # <<>> /\ data_rx' = <<>>
             THEN DOMAIN app.facet_colours \cup QueuedFacets
             ELSE DOMAIN app.facet_colours]_vars

\* Group-key f has the colour the generator does not give by default, and a
\* payload with f and the uncoloured g waits to be drained.
C14_Witness ==
    /\ app.status = "running"
    /\ DOMAIN app.facet_colours = {"f"}
    /\ app.facet_colours["f"] = "rgb2"
    /\ "g" \in QueuedFacets

\* C15: while the session is unresolved every key is routed to the
\* session-load prompt in Input mode, Esc changes nothing, no key but Enter
\* resolves the session, Enter resolves it and returns to Default/Normal; a
\* resolved session stays resolved and the prompt is not shown again.
C15_SessionLoadCannotBeEscaped ==
    /\ [](app.status = "running" /\ ~app.is_loaded
            => LET b == force_session_load(app)
               IN  /\ b.focus.panel = "SessionLoad"
                   /\ b.focus.input_mode = "Input"
                   /\ Keyed("Esc") = b
                   /\ \A key \in Keys \ {"Enter"} :
                         /\ ~Keyed(key).is_loaded
                         /\ Keyed(key).status = "running"
                   /\ Keyed("Enter").status = "running"
                         => /\ Keyed("Enter").is_loaded
                            /\ Keyed("Enter").focus.panel = "Default"
                            /\ Keyed("Enter").focus.input_mode = "Normal")
    /\ [][/\ (~app.is_loaded /\ app'.is_loaded) => KeyEnter
          /\ app.is_loaded
                => app'.is_loaded /\ app'.focus.panel # "SessionLoad"]_vars

\* The prompt was answered in this run (a session file is there and the
\* session is resolved) after some other key had been pressed on it.
C15_Witness ==
    /\ app.status = "running"
    /\ app.is_loaded
    /\ session.exists
    /\ nkeys >= 3
    /\ app.focus.panel = "Default"

\* The save prompt is in focus and takes the next key.
OnSavePrompt ==
    /\ app.status = "running" /\ app.is_loaded
    /\ app.focus.input_mode = "Input" /\ app.focus.panel = "SessionSave"

\* C16: the loop ends only by Enter on the session-save prompt, the session
\* file being written first exactly when the buffer is "y" or "Y"; Esc on
\* the prompt returns to Default/Normal and the loop goes on.
C16_LoopEndsOnlyBySavePrompt ==
    [][/\ (app.status = "running" /\ app'.status # "running")
             => /\ OnSavePrompt
                /\ KeyEnter
                /\ app'.status = "exited"
                /\ session' = IF app.inputs["SessionSave"] \in YesAnswers
                              THEN save_session(app) ELSE session
       /\ (OnSavePrompt /\ KeyEsc)
             => /\ app'.status = "running"
                /\ app'.focus.panel = "Default"
                /\ app'.focus.input_mode = "Normal"]_vars

\* The position in the data channel of the last timeseries payload of query
\* text k.
LastQueuedFor(k) ==
    CHOOSE i \in 1..Len(data_rx) :
        /\ data_rx[i].type = "Timeseries" /\ data_rx[i].query = k
        /\ \A j \in (i + 1)..Len(data_rx) :
              ~(data_rx[j].type = "Timeseries" /\ data_rx[j].query = k)

\* C17: whatever key the frame handles, its drain applies the queued
\* payloads in arrival order: the entry of every query text with a payload
\* in the channel then holds the series and the bounds of the last payload
\* queued for it, and the frame leaves the channel empty.
C17_DrainInArrivalOrder ==
    /\ [](\A key \in Keys \cup {"none"}, rng \in Rngs(app, data_rx) :
            LET b == Keyed(key)
                c == Drained(key, rng)
            IN  app.status = "running" /\ b.status = "running"
                   => \A k \in AllKeys :
                         QueuedFor(k)
                            => /\ k \in DOMAIN c.datasets
                               /\ c.datasets[k].facets = data_rx[LastQueuedFor(k)].data
                               /\ c.datasets[k].bounds = data_rx[LastQueuedFor(k)].bounds
                               /\ c.datasets[k].has_data)
    /\ [][(nkeys' # nkeys /\ app'.status = "running") => data_rx' = <<>>]_vars

\* Two payloads of one query text with different series wait in the channel.
C17_Witness ==
    /\ app.status = "running"
    /\ \E i, j \in 1..Len(data_rx) :
          /\ i < j
          /\ data_rx[i].type = "Timeseries" /\ data_rx[j].type = "Timeseries"
          /\ data_rx[i].query = data_rx[j].query
          /\ data_rx[i].data # data_rx[j].data
          /\ data_rx[i].query \in DOMAIN app.datasets

\* This step sends a payload made after a failed request.
SendsFailed ==
    /\ Len(data_rx') = Len(data_rx) + 1
    /\ data_rx'[Len(data_rx')].type = "Timeseries"
    /\ ~data_rx'[Len(data_rx')].fetched

\* A payload made after a failed request waits in the data channel.
FailedQueued ==
    \E i \in 1..Len(data_rx) :
        data_rx[i].type = "Timeseries" /\ ~data_rx[i].fetched

\* C18: a firing whose request failed still sends a payload, of the task's
\* query text and with no series; the task stays in the pool and the UI loop
\* is not touched by the send; the frame that drains such a payload goes on
\* running.
C18_FetchFailureAbsorbed ==
    [][/\ SendsFailed
             => /\ data_rx'[Len(data_rx')].data = <<>>
                /\ data_rx'[Len(data_rx')].query \in TaskKeys
                /\ tasks[data_rx'[Len(data_rx')].query] > 0
                /\ tasks' = tasks
                /\ app' = app
       /\ (FailedQueued /\ IdleFrame)
             => app'.status = "running" /\ data_rx' = <<>>]_vars

\* The one task of a query text has sent again after a firing that failed.
C18_Witness ==
    /\ app.status = "running"
    /\ \E i, j \in 1..Len(data_rx) :
          /\ i < j
          /\ data_rx[i].type = "Timeseries" /\ data_rx[j].type = "Timeseries"
          /\ ~data_rx[i].fetched
          /\ data_rx[i].query = data_rx[j].query
          /\ tasks[data_rx[i].query] = 1

\* The add-query requests for text in the UI channel of state a.
Requests(a, text) ==
    {i \in 1..Len(a.ui_tx) : a.ui_tx[i].type = "AddQuery" /\ a.ui_tx[i].arg = text}

\* The session-load prompt is about to be answered "y" with a file to read.
LoadsSession ==
    /\ app.status = "running" /\ ~app.is_loaded
    /\ session.exists
    /\ app.inputs["SessionLoad"] \in YesAnswers

\* C19: Enter on the prompt answered "y" marks the session loaded and, for
\* each pair of the file, when the cleaned text parses there is exactly one
\* request for the pair's text and the entry keyed by the rendering of the
\* cleaned text has the pair's alias; when it does not parse there is no
\* request for it; and no other entry is made.
C19_LoadSessionPerPair ==
    LoadsSession
       => LET c == Keyed("Enter")
              parsed == {i \in 1..Len(session.pairs) :
                            Parses(Clean(session.pairs[i].query))}
          IN  /\ c.status = "running"
              /\ c.is_loaded
              /\ \A i \in 1..Len(session.pairs) :
                    LET p == session.pairs[i]
                        k == Render(Clean(p.query))
                    IN  IF i \in parsed
                        THEN /\ Cardinality(Requests(c, p.query)) = 1
                             /\ k \in DOMAIN c.datasets
                             /\ c.datasets[k].query_alias = <<p.alias>>
                        ELSE Requests(c, p.query) = {}
              /\ DOMAIN c.datasets =
                    DOMAIN app.datasets
                       \cup {Render(Clean(session.pairs[i].query)) : i \in parsed}

\* C20: no query text has more than one refresh task running for it.
C20_OneTaskPerQuery == \A k \in TaskKeys : tasks[k] <= 1

\* C21: every request of the task is issued in a second that is a multiple
\* of the cadence, and no two of its requests are issued in the same second.
C21_OneRequestPerCadenceFiring ==
    /\ \A i \in 1..Len(reqlog) : reqlog[i] % CadenceSeconds = 0
    /\ \A i, j \in 1..Len(reqlog) : i < j => reqlog[i] # reqlog[j]

\* C22: the tab-switch key pressed in Normal mode moves the focus to the
\* other tab: from Logs to Graph and from Graph to Logs.
C22_TabKeySwitchesTabs ==
    NormalPress
       => Keyed("T").focus.tab = IF app.focus.tab = "Logs" THEN "Graph" ELSE "Logs"

\* The least and the greatest element of a non-empty set of integers.
Least(S) == CHOOSE x \in S : \A y \in S : x <= y

Greatest(S) == CHOOSE x \in S : \A y \in S : x >= y

\* The end times and the values of the rows of the response reduced.
ArgTimes == {arg[i].end_time_seconds : i \in 1..Len(arg)}

ArgValues == {arg[i].value : i \in 1..Len(arg)}

\* C23: the bounds of the payload are, on each axis by itself, the least of
\* the rows for the min (the largest representable value when there is no
\* row) and the greatest of 0 and the rows for the max, over all rows of
\* whatever group.
C23_BoundsFoldOverAllRows ==
    ret # NoOut
       => /\ ret.bounds.mins = << Least(ArgTimes \cup {F64_MAX}),
                                  Least(ArgValues \cup {F64_MAX}) >>
          /\ ret.bounds.maxes = << Greatest(ArgTimes \cup {0}),
                                   Greatest(ArgValues \cup {0}) >>
          /\ arg # <<>> => ret.bounds.mins = << Least(ArgTimes), Least(ArgValues) >>
          /\ arg = <<>> => /\ ret.bounds.mins = <<F64_MAX, F64_MAX>>
                           /\ ret.bounds.maxes = <<0, 0>>

\* A response of two groups whose values are all below 0 has been reduced.
C23_Witness ==
    /\ ret # NoOut
    /\ Len(arg) = 2
    /\ arg[1].facet # arg[2].facet
    /\ arg[1].end_time_seconds # arg[2].end_time_seconds
    /\ \A i \in 1..2 : arg[i].value < 0

\* The rows of group k in the response reduced, in response order.
ArgRowsOf(k) == SelectSeq(arg, LAMBDA r : r.facet = k)

\* C24: in the payload of a non-empty response every point of every series
\* lies within the bounds on both axes, and the series of a group has one
\* point per row of the group, with the rows' values in response order.
C24_PointsWithinBounds ==
    (ret # NoOut /\ arg # <<>>)
       => /\ DOMAIN ret.data = {arg[i].facet : i \in 1..Len(arg)}
          /\ \A k \in DOMAIN ret.data :
                /\ Len(ret.data[k]) = Len(ArgRowsOf(k))
                /\ \A i \in 1..Len(ret.data[k]) :
                      LET point == ret.data[k][i]
                      IN  /\ point[2] = ArgRowsOf(k)[i].value
                          /\ ret.bounds.mins[1] <= point[1]
                          /\ point[1] <= ret.bounds.maxes[1]
                          /\ ret.bounds.mins[2] <= point[2]
                          /\ point[2] <= ret.bounds.maxes[2]

\* The panels that capture text.
InputPanels == {"QueryInput", "Rename", "Search", "SessionLoad", "SessionSave"}

\* C25: in every state of the loop the input mode is Input exactly when the
\* panel in focus is one that captures text.
C25_InputModeMatchesPanel ==
    /\ app.focus.input_mode \in {"Normal", "Input"}
    /\ app.focus.panel \in Panels
    /\ app.focus.input_mode = "Input" <=> app.focus.panel \in InputPanels
    /\ app.focus.input_mode = "Normal"
          <=> app.focus.panel \in {"Default", "Dashboard", "Log", "LogDetail"}

\* A search has been committed (its filter is active) and the log detail
\* panel has been opened from the Log panel.
C25_Witness ==
    /\ app.status = "running"
    /\ app.logs.filters # {}
    /\ app.focus.panel = "LogDetail"
    /\ app.focus.input_mode = "Normal"

\* The panels whose Enter commits a text and goes on.
CommitPanels == {"QueryInput", "Rename", "Search", "SessionLoad"}

\* C26: Enter on an input panel that commits leaves that panel's buffer
\* empty and every other panel's buffer as it was.
C26_EnterClearsCommittedBuffer ==
    LET b == force_session_load(app)
        c == Keyed("Enter")
    IN  (app.status = "running" /\ b.focus.input_mode = "Input"
            /\ b.focus.panel \in CommitPanels /\ c.status = "running")
           => /\ c.inputs[b.focus.panel] = <<>>
              /\ \A q \in Panels \ {b.focus.panel} : c.inputs[q] = b.inputs[q]

\* C27: the mapping save_session writes has one pair per entry of the store,
\* and for every entry a pair whose value is the entry's query text and whose
\* key is its alias, or the query text when it has no alias.
C27_SaveLosesNoQuery ==
    ret # NoOut
       => /\ Len(ret.pairs) = Cardinality(DOMAIN arg)
          /\ \A q \in DOMAIN arg :
                \E i \in 1..Len(ret.pairs) :
                   /\ ret.pairs[i].query = q
                   /\ ret.pairs[i].alias = IF arg[q].query_alias = <<>> THEN <<q>>
                                           ELSE arg[q].query_alias[1]

====
